---- MODULE Spec2Model ----
(***************************************************************************)
(* Model of the support-ticket query layer (src/src/mcp_server.py) and of  *)
(* the seeding script (src/scripts/setup_db.py) that produces the store.   *)
(*                                                                         *)
(* Text values are sequences of one-character strings, so that lower() and *)
(* LIKE are computed character by character.  An Optional[str] argument    *)
(* and a nullable column are sequences of at most one text: <<>> is        *)
(* None / NULL and <<t>> is the text t.                                    *)
(***************************************************************************)
EXTENDS Integers, Sequences, FiniteSets, TLC

(***************************************************************************)
(* Bounds of the model.                                                    *)
(***************************************************************************)
\* longest hand-made store drawn by Init (stores of 0..MaxTickets tickets)
MaxTickets == 2
\* number of pseudo-random sequences the seeder may draw ("random" module)
NSeeds == 1
\* size of the one large store drawn by Init (more than LIMITE_MAX tickets)
BigStoreLen == 102
\* number of store handles that may be open at once
MaxHandles == 1
\* longest store drawn by the initial states of SpecConc
MaxConcTickets == 0

(***************************************************************************)
(* Program constants.                                                      *)
(***************************************************************************)
LIMITE_MIN == 1
LIMITE_MAX == 100
LIMITE_DEFAULT == 20
TOP_CLIENTES == 5
NUM_TICKETS == 60
NUM_URGENTES_HOY == 5

NULL == << >>
Some(t) == << t >>

(***************************************************************************)
(* Texts.                                                                  *)
(***************************************************************************)
BAJA == <<"b","a","j","a">>
MEDIA == <<"m","e","d","i","a">>
ALTA == <<"a","l","t","a">>
URGENTE == <<"u","r","g","e","n","t","e">>
ABIERTO == <<"a","b","i","e","r","t","o">>
CERRADO == <<"c","e","r","r","a","d","o">>
ESTADO == <<"e","s","t","a","d","o">>
PRIORIDAD == <<"p","r","i","o","r","i","d","a","d">>
CLIENTE == <<"c","l","i","e","n","t","e">>
ASUNTO == <<"a","s","u","n","t","o">>
DESCRIPCION == <<"d","e","s","c","r","i","p","c","i","o","n">>
AMBOS == <<"a","m","b","o","s">>

PRIORIDADES == <<BAJA, MEDIA, ALTA, URGENTE>>
ESTADOS == <<ABIERTO, CERRADO>>
CRITERIOS == <<ESTADO, PRIORIDAD, CLIENTE>>
CAMPOS == <<ASUNTO, DESCRIPCION, AMBOS>>

Range(s) == { s[i] : i \in 1..Len(s) }

\* a function on 1..n as a sequence value (computed once, element by element)
AsSeq(f) == SubSeq(f, 1, Len(f))

UpperAlpha == <<"A","B","C","D","E","F","G","H","I","J","K","L","M",
                "N","O","P","Q","R","S","T","U","V","W","X","Y","Z">>
LowerAlpha == <<"a","b","c","d","e","f","g","h","i","j","k","l","m",
                "n","o","p","q","r","s","t","u","v","w","x","y","z">>

\* str.lower() on one character
LowerChar(c) ==
  IF c \in Range(UpperAlpha)
    THEN LowerAlpha[CHOOSE i \in 1..Len(UpperAlpha) : UpperAlpha[i] = c]
    ELSE c

\* str.lower()
Lower(t) == AsSeq([ i \in 1..Len(t) |-> LowerChar(t[i]) ])

\* SQLite's  text LIKE pattern : % matches any run of characters, _ matches
\* one character, letters match without regard to case
RECURSIVE Like(_, _)
Like(pat, txt) ==
  IF pat = << >> THEN txt = << >>
  ELSE IF Head(pat) = "%"
    THEN Like(Tail(pat), txt) \/ (txt # << >> /\ Like(pat, Tail(txt)))
  ELSE IF txt = << >> THEN FALSE
  ELSE IF Head(pat) = "_" THEN Like(Tail(pat), Tail(txt))
  ELSE LowerChar(Head(pat)) = LowerChar(Head(txt)) /\ Like(Tail(pat), Tail(txt))

\* column LIKE ? on a nullable column: NULL LIKE ? is NULL, which is not true
ColLike(col, pat) == col # NULL /\ Like(pat, col[1])

\* f"%{busqueda}%"
Pattern(busqueda) == <<"%">> \o busqueda \o <<"%">>

\* a clamp that forgets the floor: min(limite, 100)
ClampLimiteNoFloor(limite) == IF limite < LIMITE_MAX THEN limite ELSE LIMITE_MAX

\* min(max(1, limite), 100)
Min(a, b) == IF a < b THEN a ELSE b
Max(a, b) == IF a > b THEN a ELSE b
ClampLimite(limite) == Min(Max(LIMITE_MIN, limite), LIMITE_MAX)

(***************************************************************************)
(* The storage engine: ORDER BY ... DESC, WHERE, GROUP BY, LIMIT.          *)
(***************************************************************************)
\* the order of two rows with equal sort keys is the engine's choice: by
\* rowid, ascending or descending
TieOrders == {"rowid_asc", "rowid_desc"}

\* the place of a row among the rows of equal sort key: by rowid, in the
\* direction the engine takes.  Rowids are positive and below RowidSpan.
RowidSpan == BigStoreLen + NUM_TICKETS + 1
TieRank(id, tie) == IF tie = "rowid_asc" THEN RowidSpan - id ELSE id

\* ORDER BY key DESC LIMIT limite over the rows with the given sort keys and
\* rowids: the indices of the rows, in output order.  A row comes before
\* another if its key is greater, or equal and it wins the tie; the row at
\* place r is the one that has r - 1 rows before it.
OrderDescLimit(keys, ids, limite, tie) ==
  LET n    == Len(keys)
      rank == AsSeq([ i \in 1..n |-> keys[i] * RowidSpan + TieRank(ids[i], tie) ])
      pos  == AsSeq([ i \in 1..n |->
                       1 + Cardinality({ j \in 1..n : rank[j] > rank[i] }) ])
  IN  AsSeq([ r \in 1..Min(limite, n) |-> CHOOSE i \in 1..n : pos[i] = r ])

\* LIMIT n
Limit(s, n) == SubSeq(s, 1, Min(n, Len(s)))

\* SELECT * ... ORDER BY fecha_creacion DESC LIMIT limite, over the rows that
\* passed the WHERE clause
OrderByFechaLimit(rows, limite, tie) ==
  LET order == OrderDescLimit([ i \in 1..Len(rows) |-> rows[i].fecha_creacion ],
                              [ i \in 1..Len(rows) |-> rows[i].id ], limite, tie)
  IN  AsSeq([ r \in 1..Len(order) |-> rows[order[r]] ])

\* the value of a grouping column of a ticket
Col(t, col) ==
  CASE col = ESTADO -> t.estado
    [] col = PRIORIDAD -> t.prioridad
    [] col = CLIENTE -> t.cliente

\* SELECT col, COUNT(*) as cantidad FROM tickets GROUP BY col ORDER BY cantidad DESC
\* (a group stands at the rowid of its first row when counts are equal)
GroupCount(rows, col, tie) ==
  LET vals   == AsSeq([ i \in 1..Len(rows) |-> Col(rows[i], col) ])
      firsts == { i \in 1..Len(rows) : \A j \in 1..(i - 1) : vals[j] # vals[i] }
      nth    == AsSeq([ n \in 1..Cardinality(firsts) |->
                   CHOOSE i \in firsts : Cardinality({ j \in firsts : j < i }) = n - 1 ])
      count  == AsSeq([ n \in 1..Len(nth) |->
                   Cardinality({ j \in 1..Len(rows) : vals[j] = vals[nth[n]] }) ])
      order  == OrderDescLimit(count, [ n \in 1..Len(nth) |-> rows[nth[n]].id ],
                               Len(nth), tie)
  IN  AsSeq([ r \in 1..Len(order) |->
               [valor |-> vals[nth[order[r]]], cantidad |-> count[order[r]]] ])

\* a count that skips rows: SELECT COUNT(descripcion) FROM tickets
CountDescripcion(rows) == Cardinality({ i \in 1..Len(rows) : rows[i].descripcion # NULL })

\* SELECT COUNT(*) FROM tickets
CountAll(rows) == Len(rows)

\* the open count with the wrong literal: ... WHERE estado = 'cerrado'
CountCerrados(rows) == Cardinality({ i \in 1..Len(rows) : rows[i].estado = CERRADO })

\* SELECT COUNT(*) FROM tickets WHERE estado = 'abierto'
CountAbiertos(rows) == Cardinality({ i \in 1..Len(rows) : rows[i].estado = ABIERTO })

\* SELECT COUNT(*) FROM tickets WHERE prioridad = 'urgente'
CountUrgentes(rows) == Cardinality({ i \in 1..Len(rows) : rows[i].prioridad = URGENTE })

\* SELECT cliente, COUNT(*) ... GROUP BY cliente ORDER BY cantidad DESC LIMIT 5
TopClientes(rows, tie) ==
  LET g == Limit(GroupCount(rows, CLIENTE, tie), TOP_CLIENTES)
  IN  AsSeq([ n \in 1..Len(g) |-> [cliente |-> g[n].valor, tickets |-> g[n].cantidad] ])

\* a listing whose filters are joined with OR instead of AND
SelectTicketsEitherFilter(rows, prioridad, estado, limite, tie) ==
  LET Where(t) == \/ prioridad = NULL /\ estado = NULL
                  \/ prioridad # NULL /\ t.prioridad = prioridad[1]
                  \/ estado # NULL /\ t.estado = estado[1]
  IN  OrderByFechaLimit(SelectSeq(rows, Where), limite, tie)

\* SELECT * FROM tickets WHERE 1=1 [AND prioridad = ?] [AND estado = ?]
\*   ORDER BY fecha_creacion DESC LIMIT ?
SelectTickets(rows, prioridad, estado, limite, tie) ==
  LET Where(t) == /\ (prioridad # NULL => t.prioridad = prioridad[1])
                  /\ (estado # NULL => t.estado = estado[1])
  IN  OrderByFechaLimit(SelectSeq(rows, Where), limite, tie)

\* a search that joins the two fields with AND instead of OR
SearchTicketsBothFields(rows, campo, pattern, limite, tie) ==
  LET Where(t) ==
        IF campo = AMBOS
          THEN Like(pattern, t.asunto) /\ ColLike(t.descripcion, pattern)
        ELSE IF campo = ASUNTO THEN Like(pattern, t.asunto)
        ELSE ColLike(t.descripcion, pattern)
  IN  OrderByFechaLimit(SelectSeq(rows, Where), limite, tie)

\* SELECT * FROM tickets WHERE asunto LIKE ? OR descripcion LIKE ?  (campo ambos)
\* SELECT * FROM tickets WHERE {campo} LIKE ?                      (otherwise)
\*   ORDER BY fecha_creacion DESC LIMIT ?
SearchTickets(rows, campo, pattern, limite, tie) ==
  LET Where(t) ==
        IF campo = AMBOS
          THEN Like(pattern, t.asunto) \/ ColLike(t.descripcion, pattern)
        ELSE IF campo = ASUNTO THEN Like(pattern, t.asunto)
        ELSE ColLike(t.descripcion, pattern)
  IN  OrderByFechaLimit(SelectSeq(rows, Where), limite, tie)

(***************************************************************************)
(* The seeding script: the pools it draws from, and generate_tickets.      *)
(* Timestamps are whole hours; HOY is the hour at which the script runs,   *)
(* seven days after hour 0.  random is a draw from one of NSeeds           *)
(* pseudo-random sequences.  The text pools are shortened.                 *)
(***************************************************************************)
CLIENTES == << "TechCorp S.A.", "Innovatech", "Digital Solutions Ltd.", "CloudBase Inc.",
               "DataStream Corp", "SoftWarehouse", "AppDev Studios" >>

ASUNTOS_TECNICOS == << <<"E","r","r","5","0","0">>, <<"V","P","N">>,
                       <<"E","r","r","C","O","R","S">> >>

HorasDia == 24
DiasSemana == 7
HOY == DiasSemana * HorasDia + 12
HoyMedianoche == DiasSemana * HorasDia

\* the k-th random draw made for ticket i, in 0..(n - 1)
Rnd(s, i, k, n) ==
  ((s * 389 + i * i * (k + 2) * 7 + i * (57 + 40 * k) + k * 131) % 1009) % n

\* random.choices(PRIORIDADES, weights=[30, 40, 20, 10])
WeightedPrioridad(r) ==
  IF r < 3 THEN BAJA ELSE IF r < 7 THEN MEDIA ELSE IF r < 9 THEN ALTA ELSE URGENTE

\* the descriptions of generate_tickets, by priority
Descripcion(prioridad, asunto) ==
  CASE prioridad = URGENTE -> <<"U","R","G",":">> \o asunto
    [] prioridad = ALTA -> <<"A","l","t","a",":">> \o asunto
    [] prioridad = MEDIA -> asunto \o <<".","r","e","v">>
    [] prioridad = BAJA -> asunto \o <<".","c","o","n">>

\* one of the first five tickets: urgent, open, created today
TicketUrgenteHoy(s, i, id) ==
  LET asunto == ASUNTOS_TECNICOS[Rnd(s, i, 2, Len(ASUNTOS_TECNICOS)) + 1]
      fecha  == HoyMedianoche + Rnd(s, i, 3, HorasDia)
  IN  [id |-> id,
       cliente |-> CLIENTES[Rnd(s, i, 1, Len(CLIENTES)) + 1],
       asunto |-> asunto,
       descripcion |-> Some(Descripcion(URGENTE, asunto)),
       estado |-> ABIERTO,
       prioridad |-> URGENTE,
       fecha_creacion |-> fecha,
       fecha_actualizacion |-> fecha + 1 + Rnd(s, i, 4, 3)]

\* one of the remaining tickets, created during the last week
TicketSemana(s, i, id) ==
  LET asunto    == ASUNTOS_TECNICOS[Rnd(s, i, 2, Len(ASUNTOS_TECNICOS)) + 1]
      prioridad == WeightedPrioridad(Rnd(s, i, 3, 10))
      horas     == Rnd(s, i, 4, DiasSemana * HorasDia)
      fecha     == HOY - horas
      dias      == horas \div HorasDia
      azar      == ESTADOS[Rnd(s, i, 5, Len(ESTADOS)) + 1]
      estado    == IF prioridad \in {URGENTE, ALTA}
                     THEN (IF dias > 2 THEN CERRADO ELSE ABIERTO)
                   ELSE IF prioridad = MEDIA
                     THEN (IF dias > 5 THEN CERRADO ELSE azar)
                   ELSE azar
      max_horas == Min(dias * HorasDia, 72)
  IN  [id |-> id,
       cliente |-> CLIENTES[Rnd(s, i, 1, Len(CLIENTES)) + 1],
       asunto |-> asunto,
       descripcion |-> Some(Descripcion(prioridad, asunto)),
       estado |-> estado,
       prioridad |-> prioridad,
       fecha_creacion |-> fecha,
       fecha_actualizacion |-> fecha + 1 + Rnd(s, i, 6, Max(1, max_horas))]

\* generate_tickets(conn, num_tickets) on a table whose last rowid is base:
\* the rows it inserts
generate_tickets(s, num_tickets, base) ==
  AsSeq([ i \in 1..num_tickets |->
            IF i <= NUM_URGENTES_HOY THEN TicketUrgenteHoy(s, i, base + i)
            ELSE TicketSemana(s, i, base + i) ])

(***************************************************************************)
(* The store file at DB_PATH.                                              *)
(***************************************************************************)
NoFile == [exists |-> FALSE, hasTable |-> FALSE, rows |-> << >>]
EmptyFile == [exists |-> TRUE, hasTable |-> FALSE, rows |-> << >>]
Table(rows) == [exists |-> TRUE, hasTable |-> TRUE, rows |-> rows]

\* hand-made tickets, from which the small stores of Init are built
TicketPool ==
  << [cliente |-> CLIENTES[1], asunto |-> <<"E","r","r">>,
      descripcion |-> Some(<<"d","b">>), estado |-> ABIERTO, prioridad |-> ALTA,
      fecha_creacion |-> 3, fecha_actualizacion |-> 4],
     [cliente |-> CLIENTES[2], asunto |-> <<"R","e","d">>,
      descripcion |-> Some(<<"E","R","R">>), estado |-> CERRADO, prioridad |-> ALTA,
      fecha_creacion |-> 3, fecha_actualizacion |-> 3],
     [cliente |-> CLIENTES[1], asunto |-> <<"e","r","r">>,
      descripcion |-> NULL, estado |-> ABIERTO, prioridad |-> URGENTE,
      fecha_creacion |-> 5, fecha_actualizacion |-> 6],
     [cliente |-> CLIENTES[3], asunto |-> <<"V","P","N">>,
      descripcion |-> Some(<<"r","%","d">>), estado |-> CERRADO, prioridad |-> BAJA,
      fecha_creacion |-> 1, fecha_actualizacion |-> 2] >>

WithId(t, id) ==
  [id |-> id, cliente |-> t.cliente, asunto |-> t.asunto,
   descripcion |-> t.descripcion, estado |-> t.estado, prioridad |-> t.prioridad,
   fecha_creacion |-> t.fecha_creacion, fecha_actualizacion |-> t.fecha_actualizacion]

\* the stores of at most MaxTickets hand-made tickets, inserted in the order
\* of the pool, ids assigned in sequence
SmallStores ==
  UNION { { AsSeq([ i \in 1..n |-> WithId(TicketPool[f[i]], i) ]) :
              f \in { g \in [1..n -> 1..Len(TicketPool)] :
                        \A i \in 1..(n - 1) : g[i] <= g[i + 1] } } : n \in 0..MaxTickets }

\* one store of BigStoreLen tickets
BigStore == generate_tickets(1, BigStoreLen, 0)

InitialStores ==
  {NoFile} \cup { Table(rows) : rows \in SmallStores \cup {BigStore} }

(***************************************************************************)
(* The arguments the callers pass.                                         *)
(***************************************************************************)
PrioridadArgs ==
  { NULL, Some(<< >>), Some(<<"A","L","T","A">>), Some(<<"c","r","i","t","i","c","a">>) }
EstadoArgs ==
  { NULL, Some(<<"A","b","i","e","r","t","o">>), Some(CERRADO),
    Some(<<"p","e","n","d","i","e","n","t","e">>) }
LimiteArgs == { -3, 0, 2, LIMITE_DEFAULT, LIMITE_MAX + 1 }
AgruparArgs ==
  { ESTADO, <<"P","r","i","o","r","i","d","a","d">>, CLIENTE,
    <<"f","e","c","h","a">>, << >> }
BusquedaArgs == { << >>, <<"e","r","r">>, <<"R","_","d">> }
CampoArgs ==
  { ASUNTO, <<"D","e","s","c","r","i","p","c","i","o","n">>, AMBOS,
    <<"t","i","t","u","l","o">> }

\* the defaults of the three signatures
DefaultArgs ==
  [prioridad |-> NULL, estado |-> NULL, limite |-> LIMITE_DEFAULT,
   agrupar_por |-> ESTADO, busqueda |-> << >>, campo |-> ASUNTO]

\* Python truthiness of an Optional[str]: None and "" are false
Truthy(opt) == opt # NULL /\ opt[1] # << >>

\* if prioridad: prioridad = prioridad.lower()   (and the same for estado)
Normalise(opt) == IF Truthy(opt) THEN Some(Lower(opt[1])) ELSE NULL

\* what consultar_tickets returns on a store whose table holds rows, when its
\* arguments pass validation
consultar_tickets(rows, prioridad, estado, limite, tie) ==
  SelectTickets(rows, Normalise(prioridad), Normalise(estado), ClampLimite(limite), tie)

\* what buscar_tickets_por_texto returns on a store whose table holds rows,
\* when campo passes validation
buscar_tickets_por_texto(rows, busqueda, campo, limite, tie) ==
  SearchTickets(rows, Lower(campo), Pattern(busqueda), ClampLimite(limite), tie)

(***************************************************************************)
(* State.                                                                  *)
(***************************************************************************)
VARIABLES
  db,        \* the file at DB_PATH: whether it exists, has the table, its rows
  tieOrder,  \* how the engine orders rows with equal sort keys
  seedPc,    \* position of the seeding script
  pc,        \* position of the tool invocation in progress
  op,        \* the tool invoked
  args,      \* its arguments
  conn,      \* the connection of the invocation in progress
  handles,   \* number of store handles opened by the query layer and not closed
  params,    \* the normalised arguments bound to the query
  stmt,      \* number of statements the invocation has executed
  result,    \* the value being built, returned when pc = "returned"
  err,       \* the exception raised when pc = "raised"
  prev       \* outcome of the previous, identical call when this one repeats it

vars == << db, tieOrder, seedPc, pc, op, args, conn, handles, params,
           stmt, result, err, prev >>

NoConn == [open |-> FALSE, detached |-> FALSE, snap |-> NoFile]
NoParams == [prioridad |-> NULL, estado |-> NULL, limite |-> 0,
             agrupar_por |-> << >>, campo |-> << >>, pattern |-> << >>]
NoResult == [tickets |-> << >>, total_tickets |-> 0, distribucion |-> << >>,
             tickets_abiertos |-> 0, tickets_urgentes |-> 0, top_5_clientes |-> << >>]
NoPrev == [set |-> FALSE, pc |-> "idle", result |-> NoResult, err |-> "none"]

\* the file a connection reads: the file at DB_PATH, or, once that file has
\* been unlinked under the open connection, the unlinked file
Content == IF conn.detached THEN conn.snap ELSE db

callVars == << pc, op, args, conn, handles, params, stmt, result, err, prev >>
seedVars == << seedPc >>

Init ==
  /\ db \in InitialStores
  /\ tieOrder \in TieOrders
  /\ seedPc = "idle"
  /\ pc = "idle"
  /\ op = "none"
  /\ args = DefaultArgs
  /\ conn = NoConn
  /\ handles = 0
  /\ params = NoParams
  /\ stmt = 0
  /\ result = NoResult
  /\ err = "none"
  /\ prev = NoPrev

(***************************************************************************)
(* A tool is invoked.                                                      *)
(***************************************************************************)
Invoke(tool, a, p) ==
  /\ handles < MaxHandles
  /\ pc' = "get_db_connection"
  /\ op' = tool
  /\ args' = a
  /\ prev' = p
  /\ params' = NoParams
  /\ stmt' = 0
  /\ result' = NoResult
  /\ err' = "none"
  /\ conn' = NoConn
  /\ UNCHANGED << db, tieOrder, seedVars, handles >>

CallConsultar ==
  /\ pc = "idle"
  /\ \E p \in PrioridadArgs, e \in EstadoArgs, l \in LimiteArgs :
       Invoke("consultar_tickets",
              [DefaultArgs EXCEPT !.prioridad = p, !.estado = e, !.limite = l], NoPrev)

CallEstadisticas ==
  /\ pc = "idle"
  /\ \E g \in AgruparArgs :
       Invoke("obtener_estadisticas", [DefaultArgs EXCEPT !.agrupar_por = g], NoPrev)

CallBuscar ==
  /\ pc = "idle"
  /\ \E b \in BusquedaArgs, c \in CampoArgs, l \in LimiteArgs :
       Invoke("buscar_tickets_por_texto",
              [DefaultArgs EXCEPT !.busqueda = b, !.campo = c, !.limite = l], NoPrev)

\* the caller repeats the call that has just ended, with the same arguments
CallAgain ==
  /\ pc \in {"returned", "raised"}
  /\ ~prev.set
  /\ Invoke(op, args, [set |-> TRUE, pc |-> pc, result |-> result, err |-> err])

\* the call has ended; nothing of it is kept
Return ==
  /\ pc \in {"returned", "raised"}
  /\ pc' = "idle"
  /\ op' = "none"
  /\ args' = DefaultArgs
  /\ conn' = NoConn
  /\ params' = NoParams
  /\ stmt' = 0
  /\ result' = NoResult
  /\ err' = "none"
  /\ prev' = NoPrev
  /\ UNCHANGED << db, tieOrder, seedVars, handles >>

(***************************************************************************)
(* get_db_connection                                                       *)
(***************************************************************************)
\* get_db_connection without the existence check
DbExistsUnchecked ==
  /\ pc = "get_db_connection"
  /\ pc' = "connect"
  /\ UNCHANGED << db, tieOrder, seedVars, op, args, conn, handles, params, stmt,
                  result, err, prev >>

\* if not DB_PATH.exists(): raise FileNotFoundError
DbExists ==
  /\ pc = "get_db_connection"
  /\ IF db.exists
       THEN pc' = "connect" /\ err' = err
       ELSE pc' = "raised" /\ err' = "FileNotFoundError"
  /\ UNCHANGED << db, tieOrder, seedVars, op, args, conn, handles, params, stmt,
                  result, prev >>

\* return sqlite3.connect(DB_PATH): opens the file, creating it empty if it
\* is gone since the check
DbConnect ==
  /\ pc = "connect"
  /\ db' = IF db.exists THEN db ELSE EmptyFile
  /\ conn' = [open |-> TRUE, detached |-> FALSE, snap |-> NoFile]
  /\ handles' = handles + 1
  /\ pc' = "validate"
  /\ UNCHANGED << tieOrder, seedVars, op, args, params, stmt, result,
                  err, prev >>

\* conn.close(); raise ValueError(...)
CloseAndRaise ==
  /\ conn' = NoConn
  /\ handles' = handles - 1
  /\ pc' = "raised"
  /\ err' = "ValueError"
  /\ UNCHANGED << db, tieOrder, seedVars, op, args, params, stmt,
                  result, prev >>

\* cursor.execute raises (no such table): the exception propagates, and the
\* connection is not closed
ExecuteRaises ==
  /\ pc' = "raised"
  /\ err' = "OperationalError"
  /\ UNCHANGED << db, tieOrder, seedVars, op, args, conn, handles, params, stmt,
                  result, prev >>

\* conn.close(); return ...
CloseAndReturn ==
  /\ conn' = NoConn
  /\ handles' = handles - 1
  /\ pc' = "returned"
  /\ UNCHANGED << db, tieOrder, seedVars, op, args, params, stmt,
                  result, err, prev >>

\* a statement that also stamps every row it reads (an UPDATE of
\* fecha_actualizacion)
ExecutedTouching(newResult, nextPc) ==
  /\ result' = newResult
  /\ stmt' = stmt + 1
  /\ pc' = nextPc
  /\ db' = [db EXCEPT !.rows =
              AsSeq([ i \in 1..Len(db.rows) |->
                        [db.rows[i] EXCEPT !.fecha_actualizacion = @ + 1] ])]
  /\ UNCHANGED << tieOrder, seedVars, op, args, conn, handles, params, err, prev >>

\* every statement preceded by a second one (a count before the select)
ExecutedTwice(newResult, nextPc) ==
  /\ result' = newResult
  /\ stmt' = stmt + 2
  /\ pc' = nextPc
  /\ UNCHANGED << db, tieOrder, seedVars, op, args, conn, handles, params, err, prev >>

\* a statement ran on the rows of the connection's file and gave newResult
Executed(newResult, nextPc) ==
  /\ result' = newResult
  /\ stmt' = stmt + 1
  /\ pc' = nextPc
  /\ UNCHANGED << db, tieOrder, seedVars, op, args, conn, handles, params, err, prev >>

(***************************************************************************)
(* consultar_tickets                                                       *)
(***************************************************************************)
\* lines 64-93: both filters are lower-cased and checked, the limit clamped
ConsultarValidate ==
  /\ pc = "validate"
  /\ op = "consultar_tickets"
  /\ LET prioridad == Normalise(args.prioridad)
         estado    == Normalise(args.estado)
     IN  IF prioridad # NULL /\ prioridad[1] \notin Range(PRIORIDADES)
           THEN CloseAndRaise
         ELSE IF estado # NULL /\ estado[1] \notin Range(ESTADOS)
           THEN CloseAndRaise
         ELSE /\ params' = [NoParams EXCEPT !.prioridad = prioridad,
                                            !.estado = estado,
                                            !.limite = ClampLimite(args.limite)]
              /\ pc' = "execute"
              /\ UNCHANGED << db, tieOrder, seedVars, op, args, conn, handles,
                              stmt, result, err, prev >>

\* lines 95-102: cursor.execute(query, params); rows to dicts
ConsultarExecute ==
  /\ pc = "execute"
  /\ op = "consultar_tickets"
  /\ IF ~Content.hasTable
       THEN ExecuteRaises
       ELSE Executed([result EXCEPT !.tickets =
                        SelectTickets(Content.rows, params.prioridad, params.estado,
                                      params.limite, tieOrder)],
                     "close")

\* lines 104-106
ConsultarClose ==
  /\ pc = "close"
  /\ op = "consultar_tickets"
  /\ CloseAndReturn

(***************************************************************************)
(* obtener_estadisticas                                                    *)
(***************************************************************************)
\* lines 136-142
EstadisticasValidate ==
  /\ pc = "validate"
  /\ op = "obtener_estadisticas"
  /\ LET agrupar_por == Lower(args.agrupar_por)
     IN  IF agrupar_por \notin Range(CRITERIOS)
           THEN CloseAndRaise
           ELSE /\ params' = [NoParams EXCEPT !.agrupar_por = agrupar_por]
                /\ pc' = "execute"
                /\ UNCHANGED << db, tieOrder, seedVars, op, args, conn, handles,
                                stmt, result, err, prev >>

\* the statement obtener_estadisticas runs after having run n statements
EstadisticasStatement(n, rows, r) ==
  CASE n = 0 -> [r EXCEPT !.total_tickets = CountAll(rows)]
    [] n = 1 -> [r EXCEPT !.distribucion = GroupCount(rows, params.agrupar_por, tieOrder)]
    [] n = 2 -> [r EXCEPT !.tickets_abiertos = CountAbiertos(rows)]
    [] n = 3 -> [r EXCEPT !.tickets_urgentes = CountUrgentes(rows)]
    [] n = 4 -> [r EXCEPT !.top_5_clientes = TopClientes(rows, tieOrder)]

NumEstadisticasStatements == 5

\* lines 144-171: one cursor.execute per step, each reading the file as it is
EstadisticasExecute ==
  /\ pc = "execute"
  /\ op = "obtener_estadisticas"
  /\ IF ~Content.hasTable
       THEN ExecuteRaises
       ELSE Executed(EstadisticasStatement(stmt, Content.rows, result),
                     IF stmt + 1 < NumEstadisticasStatements THEN "execute" ELSE "close")

\* lines 173-183
EstadisticasClose ==
  /\ pc = "close"
  /\ op = "obtener_estadisticas"
  /\ CloseAndReturn

(***************************************************************************)
(* buscar_tickets_por_texto                                                *)
(***************************************************************************)
\* lines 215-240
BuscarValidate ==
  /\ pc = "validate"
  /\ op = "buscar_tickets_por_texto"
  /\ LET campo == Lower(args.campo)
     IN  IF campo \notin Range(CAMPOS)
           THEN CloseAndRaise
           ELSE /\ params' = [NoParams EXCEPT !.campo = campo,
                                              !.pattern = Pattern(args.busqueda),
                                              !.limite = ClampLimite(args.limite)]
                /\ pc' = "execute"
                /\ UNCHANGED << db, tieOrder, seedVars, op, args, conn, handles,
                                stmt, result, err, prev >>

\* lines 242-249
BuscarExecute ==
  /\ pc = "execute"
  /\ op = "buscar_tickets_por_texto"
  /\ IF ~Content.hasTable
       THEN ExecuteRaises
       ELSE Executed([result EXCEPT !.tickets =
                        SearchTickets(Content.rows, params.campo, params.pattern,
                                      params.limite, tieOrder)],
                     "close")

\* lines 251-253
BuscarClose ==
  /\ pc = "close"
  /\ op = "buscar_tickets_por_texto"
  /\ CloseAndReturn

(***************************************************************************)
(* The seeding script, main().                                             *)
(***************************************************************************)
\* if db_path.exists(): db_path.unlink().  A connection open on the file
\* keeps the unlinked file.
SeedUnlink ==
  /\ seedPc = "idle"
  /\ seedPc' = "create_database"
  /\ db' = NoFile
  /\ conn' = IF conn.open /\ ~conn.detached
               THEN [open |-> TRUE, detached |-> TRUE, snap |-> db]
               ELSE conn
  /\ UNCHANGED << tieOrder, pc, op, args, handles, params, stmt,
                  result, err, prev >>

\* create_database: sqlite3.connect(db_path) creates the file
SeedConnect ==
  /\ seedPc = "create_database"
  /\ seedPc' = "create_table"
  /\ db' = IF db.exists THEN db ELSE EmptyFile
  /\ UNCHANGED << tieOrder, callVars >>

\* create_database: CREATE TABLE IF NOT EXISTS tickets ...; conn.commit()
SeedCreateTable ==
  /\ seedPc = "create_table"
  /\ seedPc' = "generate_tickets"
  /\ db' = IF db.hasTable THEN db ELSE Table(<< >>)
  /\ UNCHANGED << tieOrder, callVars >>

\* generate_tickets(conn, num_tickets=60): the inserts become visible at
\* conn.commit(); then the verification reads and conn.close()
SeedGenerate ==
  /\ seedPc = "generate_tickets"
  /\ seedPc' = "idle"
  /\ \E s \in 1..NSeeds :
       db' = Table(db.rows \o generate_tickets(s, NUM_TICKETS, Len(db.rows)))
  /\ UNCHANGED << tieOrder, callVars >>

(***************************************************************************)
(* Specifications.                                                         *)
(***************************************************************************)
Seeder == SeedUnlink \/ SeedConnect \/ SeedCreateTable \/ SeedGenerate

\* Spec: the tools are invoked one after another, and the seeding script
\* takes its steps between invocations.
Next ==
  \/ CallConsultar
  \/ CallEstadisticas
  \/ CallBuscar
  \/ CallAgain
  \/ Return
  \/ DbExists
  \/ DbConnect
  \/ ConsultarValidate
  \/ ConsultarExecute
  \/ ConsultarClose
  \/ EstadisticasValidate
  \/ EstadisticasExecute
  \/ EstadisticasClose
  \/ BuscarValidate
  \/ BuscarExecute
  \/ BuscarClose
  \/ (pc = "idle" /\ SeedUnlink)
  \/ (pc = "idle" /\ SeedConnect)
  \/ (pc = "idle" /\ SeedCreateTable)
  \/ (pc = "idle" /\ SeedGenerate)

Spec == Init /\ [][Next]_vars

\* SpecConc: the seeding script runs while a tool invocation is in progress.
InitConc == Init /\ Len(db.rows) <= MaxConcTickets

NextConc ==
  \/ CallConsultar
  \/ CallEstadisticas
  \/ CallBuscar
  \/ Return
  \/ DbExists
  \/ DbConnect
  \/ ConsultarValidate
  \/ ConsultarExecute
  \/ ConsultarClose
  \/ EstadisticasValidate
  \/ EstadisticasExecute
  \/ EstadisticasClose
  \/ BuscarValidate
  \/ BuscarExecute
  \/ BuscarClose
  \/ SeedUnlink
  \/ SeedConnect
  \/ SeedCreateTable
  \/ SeedGenerate

SpecConc == InitConc /\ [][NextConc]_vars

(***************************************************************************)
(* Properties.                                                             *)
(***************************************************************************)
Ended == pc \in {"returned", "raised"}

\* an optional filter names a value of the enumeration, in any letter case
ValidOpt(opt, allowed) == opt = NULL \/ Lower(opt[1]) \in Range(allowed)

\* the ticket passes the filters supplied, lower-cased
PassesFilters(t, prioridad, estado) ==
  /\ (prioridad # NULL => t.prioridad = Lower(prioridad[1]))
  /\ (estado # NULL => t.estado = Lower(estado[1]))

\* the limit as the claims state it
Clamped(limite) == IF limite < 1 THEN 1 ELSE IF limite > 100 THEN 100 ELSE limite

NoDuplicates(tickets) ==
  Cardinality({ tickets[i].id : i \in 1..Len(tickets) }) = Len(tickets)

NewestFirst(tickets) ==
  \A i \in 1..(Len(tickets) - 1) :
    tickets[i].fecha_creacion >= tickets[i + 1].fecha_creacion

RECURSIVE SumCantidad(_)
SumCantidad(d) == IF d = << >> THEN 0 ELSE Head(d).cantidad + SumCantidad(Tail(d))

\* the rows the query of the call that has returned selects from the table
MatchingRows ==
  IF op = "consultar_tickets"
    THEN { t \in Range(db.rows) :
             /\ (params.prioridad # NULL => t.prioridad = params.prioridad[1])
             /\ (params.estado # NULL => t.estado = params.estado[1]) }
    ELSE { t \in Range(db.rows) :
             \/ params.campo \in {ASUNTO, AMBOS} /\ Like(params.pattern, t.asunto)
             \/ params.campo \in {DESCRIPCION, AMBOS}
                  /\ ColLike(t.descripcion, params.pattern) }

\* C1: with valid filters, on a store that has the table, consultar_tickets
\* returns (never raises); the tickets returned all pass both lower-cased
\* filters, are in non-increasing fecha_creacion order without repetition, no
\* matching ticket left out is strictly newer than a returned one, and the
\* result is empty exactly when nothing matches.
C1_FilteredListing ==
  ( /\ Ended
    /\ op = "consultar_tickets"
    /\ db.hasTable
    /\ ValidOpt(args.prioridad, PRIORIDADES)
    /\ ValidOpt(args.estado, ESTADOS) )
  => /\ pc = "returned"
     /\ LET res      == result.tickets
            matching == { t \in Range(db.rows) :
                            PassesFilters(t, args.prioridad, args.estado) }
        IN  /\ Range(res) \subseteq matching
            /\ NewestFirst(res)
            /\ NoDuplicates(res)
            /\ \A t \in matching \ Range(res) : \A u \in Range(res) :
                 t.fecha_creacion <= u.fecha_creacion
            /\ (res = << >>) <=> (matching = {})

\* C1 witness: both filters given in upper case, some matching tickets are
\* returned, one matching ticket is left out, another ticket does not match.
C1_Witness ==
  /\ pc = "returned"
  /\ op = "consultar_tickets"
  /\ args.prioridad = Some(<<"A","L","T","A">>)
  /\ args.estado = Some(<<"A","b","i","e","r","t","o">>)
  /\ result.tickets # << >>
  /\ \E t \in Range(db.rows) \ Range(result.tickets) :
       t.prioridad = ALTA /\ t.estado = ABIERTO
  /\ \E t \in Range(db.rows) : t.prioridad # ALTA

\* C2: the limit is clamped into [1, 100] and never rejected: a listing or a
\* search that passes validation on a store that has the table returns
\* min(min(max(1, limite), 100), number of matching tickets) tickets.
C2_LimitClamped ==
  /\ ( pc = "returned" /\ op \in {"consultar_tickets", "buscar_tickets_por_texto"} )
     => Len(result.tickets) = Min(Clamped(args.limite), Cardinality(MatchingRows))
  /\ ( pc = "raised" /\ op \in {"consultar_tickets", "buscar_tickets_por_texto"} )
     => \/ ~db.hasTable
        \/ Truthy(args.prioridad) /\ ~ValidOpt(args.prioridad, PRIORIDADES)
        \/ Truthy(args.estado) /\ ~ValidOpt(args.estado, ESTADOS)
        \/ Lower(args.campo) \notin Range(CAMPOS)

\* C2 witness: a search asks for more than 100 tickets, more than 100 match,
\* and exactly 100 are returned.
C2_Witness ==
  /\ pc = "returned"
  /\ op = "buscar_tickets_por_texto"
  /\ args.limite > 100
  /\ Cardinality(MatchingRows) > 100
  /\ Len(result.tickets) = 100

\* C2 witness for the lower end: a listing asks for no ticket or fewer, at
\* least two match, and exactly one is returned.
C2_WitnessLow ==
  /\ pc = "returned"
  /\ op = "consultar_tickets"
  /\ args.limite <= 0
  /\ Cardinality(MatchingRows) >= 2
  /\ Len(result.tickets) = 1

\* C3: the counts of distribucion sum to total_tickets, which is the number
\* of tickets in the store, for every valid agrupar_por; no group appears twice.
C3_CountsSumToTotal ==
  ( pc = "returned" /\ op = "obtener_estadisticas" )
  => /\ SumCantidad(result.distribucion) = result.total_tickets
     /\ result.total_tickets = Len(db.rows)
     /\ Cardinality({ result.distribucion[i].valor :
                        i \in 1..Len(result.distribucion) }) = Len(result.distribucion)

\* C3 witness: statistics by cliente over a seeded store, with more groups
\* than the five of top_5_clientes.
C3_Witness ==
  /\ pc = "returned"
  /\ op = "obtener_estadisticas"
  /\ params.agrupar_por = CLIENTE
  /\ Len(result.distribucion) > TOP_CLIENTES
  /\ result.total_tickets = NUM_TICKETS

\* C4 (as claimed): tickets_abiertos equals the number of tickets that
\* consultar_tickets returns for estado="abierto" with limite left out.
C4_AbiertosEqualsListing ==
  ( pc = "returned" /\ op = "obtener_estadisticas" )
  => result.tickets_abiertos =
       Len(consultar_tickets(db.rows, NULL, Some(ABIERTO), LIMITE_DEFAULT, tieOrder))

\* C4 (amended): tickets_abiertos is the number of tickets of the store whose
\* estado is abierto; consultar_tickets for estado="abierto" returns
\* min(20, tickets_abiertos) tickets with limite left out, and
\* min(100, tickets_abiertos) with the largest limite.
C4_AbiertosUpToLimit ==
  ( pc = "returned" /\ op = "obtener_estadisticas" )
  => /\ result.tickets_abiertos =
          Cardinality({ i \in 1..Len(db.rows) : db.rows[i].estado = ABIERTO })
     /\ Len(consultar_tickets(db.rows, NULL, Some(ABIERTO), LIMITE_DEFAULT, tieOrder))
          = Min(20, result.tickets_abiertos)
     /\ Len(consultar_tickets(db.rows, NULL, Some(ABIERTO), LIMITE_MAX, tieOrder))
          = Min(100, result.tickets_abiertos)

\* C4 witness: statistics over a store with more than 20 open tickets.
C4_Witness ==
  /\ pc = "returned"
  /\ op = "obtener_estadisticas"
  /\ result.tickets_abiertos > 20

\* the tickets matching the search text in asunto or in descripcion
MatchEither == { t \in Range(db.rows) :
                   Like(params.pattern, t.asunto) \/ ColLike(t.descripcion, params.pattern) }

\* C5 (as claimed): campo="ambos" returns, as a set without duplicates, the
\* union of what campo="asunto" and campo="descripcion" return for the same
\* text and the same limite.
C5_AmbosIsUnion ==
  ( pc = "returned" /\ op = "buscar_tickets_por_texto" /\ params.campo = AMBOS )
  => /\ NoDuplicates(result.tickets)
     /\ Range(result.tickets) =
          Range(buscar_tickets_por_texto(db.rows, args.busqueda, ASUNTO,
                                         args.limite, tieOrder))
          \cup Range(buscar_tickets_por_texto(db.rows, args.busqueda, DESCRIPCION,
                                              args.limite, tieOrder))

\* C5 (amended): campo="ambos" returns, without duplicates, the
\* min(clamped limite, n) newest of the n tickets matching in asunto or in
\* descripcion; it is the union of the two separate results whenever n is at
\* most the clamped limite.
C5_AmbosIsUnionUpToLimit ==
  ( pc = "returned" /\ op = "buscar_tickets_por_texto" /\ params.campo = AMBOS )
  => /\ NoDuplicates(result.tickets)
     /\ NewestFirst(result.tickets)
     /\ Range(result.tickets) \subseteq MatchEither
     /\ Len(result.tickets) = Min(Clamped(args.limite), Cardinality(MatchEither))
     /\ \A t \in MatchEither \ Range(result.tickets) : \A u \in Range(result.tickets) :
          t.fecha_creacion <= u.fecha_creacion
     /\ Cardinality(MatchEither) <= Clamped(args.limite)
          => Range(result.tickets) =
               Range(buscar_tickets_por_texto(db.rows, args.busqueda, ASUNTO,
                                              args.limite, tieOrder))
               \cup Range(buscar_tickets_por_texto(db.rows, args.busqueda, DESCRIPCION,
                                                   args.limite, tieOrder))

\* C5 witness: a search in both fields that fits the limit, where some ticket
\* matches only in asunto and some other only in descripcion.
C5_Witness ==
  /\ pc = "returned"
  /\ op = "buscar_tickets_por_texto"
  /\ params.campo = AMBOS
  /\ Cardinality(MatchEither) <= Clamped(args.limite)
  /\ \E t \in Range(result.tickets) : ~ColLike(t.descripcion, params.pattern)
  /\ \E t \in Range(result.tickets) : ~Like(params.pattern, t.asunto)

\* the call carries an enumerated argument that, lower-cased, is outside the
\* allowed set of its tool
InvalidEnum ==
  CASE op = "consultar_tickets" ->
         \/ args.prioridad # NULL /\ Lower(args.prioridad[1]) \notin Range(PRIORIDADES)
         \/ args.estado # NULL /\ Lower(args.estado[1]) \notin Range(ESTADOS)
    [] op = "obtener_estadisticas" -> Lower(args.agrupar_por) \notin Range(CRITERIOS)
    [] op = "buscar_tickets_por_texto" -> Lower(args.campo) \notin Range(CAMPOS)
    [] OTHER -> FALSE

\* C6: when the store exists, a call with an enumerated argument outside the
\* allowed set ends with ValueError, having executed no statement.
C6_InvalidEnumRejected ==
  ( Ended /\ db.exists /\ InvalidEnum )
  => ( pc = "raised" /\ err = "ValueError" /\ stmt = 0 )

\* C7: a call made while the store file does not exist, whatever its
\* arguments, raises FileNotFoundError at the existence check, opens no
\* handle, executes nothing, returns nothing and does not create the store.
C7_MissingStoreRaises ==
  /\ []( ( pc \notin {"idle", "get_db_connection"} /\ ~db.exists )
         => ( /\ pc = "raised"
              /\ err = "FileNotFoundError"
              /\ ~conn.open
              /\ stmt = 0
              /\ result = NoResult ) )
  /\ [][ ( pc = "get_db_connection" /\ ~db.exists )
         => ( pc' = "raised" /\ err' = "FileNotFoundError" /\ db' = db
              /\ handles' = handles ) ]_vars
  /\ [][ ( pc = "raised" /\ err = "FileNotFoundError" /\ seedPc' = seedPc )
         => db' = db ]_vars

\* C7 witness: a listing with an invalid prioridad, called while the store
\* does not exist, has raised FileNotFoundError.
C7_Witness ==
  /\ pc = "raised"
  /\ err = "FileNotFoundError"
  /\ op = "consultar_tickets"
  /\ InvalidEnum
  /\ ~db.exists

\* C8: once a call has ended, however it ended, no handle it opened is still
\* open: the number of open handles is zero whenever no call is in progress.
C8_NoHandleLeftOpen ==
  ( pc \in {"idle", "returned", "raised"} ) => handles = 0

C10_OneReadPerCall ==
  pc = "returned" => stmt = 1

\* C10 (amended): consultar_tickets and buscar_tickets_por_texto execute
\* exactly one read statement between opening and releasing the handle;
\* obtener_estadisticas executes five; none is executed before validation
\* has passed or without an open handle.
C10_ReadsPerCall ==
  /\ ( pc = "returned" /\ op \in {"consultar_tickets", "buscar_tickets_por_texto"} )
     => stmt = 1
  /\ ( pc = "returned" /\ op = "obtener_estadisticas" ) => stmt = 5
  /\ pc \in {"idle", "get_db_connection", "connect", "validate"} => stmt = 0
  /\ pc \in {"execute", "close"} => conn.open
  /\ stmt <= 5

\* C10 witness: the seeding script has committed between two statements of
\* obtener_estadisticas, and the call returns a total that is not the sum of
\* its distribution.
C10_Witness ==
  /\ pc = "returned"
  /\ op = "obtener_estadisticas"
  /\ stmt = 5
  /\ result.total_tickets # SumCantidad(result.distribucion)

====
